---- MODULE Spec2Model ----
(***************************************************************************)
(* State-machine model of the kipo (icport) terminal dashboard:            *)
(*   src/src/tui/dashboard.ts           Dashboard (orchestrator)           *)
(*   src/src/tui/dashboard-data.ts      filtered-ports cache, sort,        *)
(*                                      selection, initial state           *)
(*   src/src/tui/dashboard-renderer.ts  DashboardRenderer (delta / full)   *)
(* Strings are sequences of one-character strings.  An optional value      *)
(* (T | null) is the empty sequence (null) or a one-element sequence.      *)
(***************************************************************************)
EXTENDS Integers, Sequences, FiniteSets, TLC

(***************************************************************************)
(* Bounds of the model.                                                    *)
(***************************************************************************)
MaxTime == 2          \* the clock (Date.now()) runs over 0..MaxTime
MaxBufLen == 1        \* longest search buffer typed by the user
MaxOutstanding == 1   \* refresh() calls awaiting detectPorts at one time
MaxStops == 2         \* calls of stop() in one run

(***************************************************************************)
(* Null and strings.                                                       *)
(***************************************************************************)
Null == <<>>

Some(x) == <<x>>

Min(a, b) == IF a < b THEN a ELSE b

Max(a, b) == IF a > b THEN a ELSE b

\* String.prototype.toLowerCase, one character
LowerChar(c) ==
  CASE c = "N" -> "n"
    [] c = "D" -> "d"
    [] OTHER -> c

\* String.prototype.toLowerCase
toLowerCase(s) == [i \in 1..Len(s) |-> LowerChar(s[i])]

\* String.prototype.includes
includes(s, sub) ==
  \E i \in 0..(Len(s) - Len(sub)) : SubSeq(s, i + 1, i + Len(sub)) = sub

DigitChar(d) ==
  CASE d = 0 -> "0" [] d = 1 -> "1" [] d = 2 -> "2" [] d = 3 -> "3"
    [] d = 4 -> "4" [] d = 5 -> "5" [] d = 6 -> "6" [] d = 7 -> "7"
    [] d = 8 -> "8" [] d = 9 -> "9"

RECURSIVE NumToString(_)
\* Number.prototype.toString for a non-negative integer
NumToString(n) ==
  IF n < 10 THEN <<DigitChar(n)>>
  ELSE Append(NumToString(n \div 10), DigitChar(n % 10))

RECURSIVE Join(_, _)
\* Array.prototype.join
Join(parts, sep) ==
  IF Len(parts) = 0 THEN <<>>
  ELSE IF Len(parts) = 1 THEN parts[1]
  ELSE parts[1] \o sep \o Join(Tail(parts), sep)

(***************************************************************************)
(* PortInfo / PortGroup values the port detector and processor can hand    *)
(* to refresh().  They are the inputs of the model.                        *)
(***************************************************************************)
PortA ==
  [port |-> 30, pid |-> 12, processName |-> <<"N", "d">>,
   command |-> <<"n", "d", " ", "8">>, user |-> <<"b">>, protocol |-> "TCP",
   type |-> Null, lifetime |-> Some(5)]

\* PortA seen on its other protocol: every field renderDelta compares is equal
PortA2 == [PortA EXCEPT !.protocol = "UDP"]

PortB ==
  [port |-> 80, pid |-> 11, processName |-> <<"D", "b">>,
   command |-> <<"d", "b">>, user |-> <<"a">>, protocol |-> "TCP",
   type |-> Some("api"), lifetime |-> Null]

PortC ==
  [port |-> 53, pid |-> 7, processName |-> <<"d", "n">>,
   command |-> <<"d", "n">>, user |-> <<"a">>, protocol |-> "UDP",
   type |-> Null, lifetime |-> Some(70)]

Group(id, type, ports) ==
  [id |-> id, type |-> type, collapsed |-> FALSE, ports |-> ports]

\* what detectPorts + processPorts can deliver (groups; collapsed is decided
\* by processPorts below)
Scans ==
  { <<>>,
    <<Group(<<"d">>, "dev", <<PortA, PortB>>)>>,
    <<Group(<<"d">>, "dev", <<PortB, PortA2>>), Group(<<"s">>, "sys", <<PortC>>)>>,
    <<Group(<<"d">>, "dev", <<PortB, PortC>>)>> }

RECURSIVE FlatPorts(_)
\* the ports of all groups of a processPorts result (result.ports)
FlatPorts(groups) ==
  IF Len(groups) = 0 THEN <<>>
  ELSE groups[1].ports \o FlatPorts(Tail(groups))

\* PortProcessor.processPorts: groups keep their identity across refreshes, and
\* with it the collapsed flag the user set
processPorts(scan, oldGroups) ==
  [i \in 1..Len(scan) |->
     [scan[i] EXCEPT !.collapsed =
        \E j \in 1..Len(oldGroups) :
           oldGroups[j].id = scan[i].id /\ oldGroups[j].collapsed]]

\* the digit keys the user types while searching
KeyDigits == {"3", "8"}

\* the sort options given on the command line (filterOptions.sort)
CliSorts == {Some("user")}

(***************************************************************************)
(* dashboard-data.ts                                                       *)
(***************************************************************************)
\* createInitialState with two modal flags set
createInitialState_TwoModals ==
  [ports |-> <<>>, groups |-> <<>>, selectedIndex |-> 0, filter |-> <<>>,
   showHelp |-> TRUE, showConfirm |-> TRUE, showLogs |-> FALSE,
   showCommand |-> FALSE, showStats |-> FALSE, sortBy |-> "port",
   showDetails |-> TRUE, searching |-> FALSE, isKilling |-> FALSE,
   killingPort |-> Null, killMessage |-> Null, killMessageExpiresAt |-> Null,
   lastUpdate |-> 0]

\* createInitialState (the fields the dashboard core reads or writes)
createInitialState ==
  [ports |-> <<>>, groups |-> <<>>, selectedIndex |-> 0, filter |-> <<>>,
   showHelp |-> FALSE, showConfirm |-> FALSE, showLogs |-> FALSE,
   showCommand |-> FALSE, showStats |-> FALSE, sortBy |-> "port",
   showDetails |-> TRUE, searching |-> FALSE, isKilling |-> FALSE,
   killingPort |-> Null, killMessage |-> Null, killMessageExpiresAt |-> Null,
   lastUpdate |-> 0]

\* the groupsHash without the collapsed flag
GroupsHash_NoCollapsed(groups) ==
  Join([i \in 1..Len(groups) |->
          groups[i].id \o <<":">> \o NumToString(Len(groups[i].ports))],
       <<"|">>)

\* the groupsHash of getFilteredPorts: id:collapsed:count joined by "|"
GroupsHash(groups) ==
  Join([i \in 1..Len(groups) |->
          groups[i].id \o <<":">>
          \o <<IF groups[i].collapsed THEN "1" ELSE "0">> \o <<":">>
          \o NumToString(Len(groups[i].ports))],
       <<"|">>)

\* the filter test comparing names and commands case-sensitively
PortMatches_CaseSensitive(port, filter) ==
  IF filter # <<>>
  THEN \/ includes(NumToString(port.port), filter)
       \/ includes(port.processName, filter)
       \/ includes(port.command, filter)
  ELSE TRUE

\* the filter test of getFilteredPorts for one port
PortMatches(port, filter) ==
  IF filter # <<>>
  THEN LET filterLower == toLowerCase(filter)
           portMatch == includes(NumToString(port.port), filter)
           processMatch == includes(toLowerCase(port.processName), filterLower)
           commandMatch == includes(toLowerCase(port.command), filterLower)
       IN ~(~portMatch /\ ~processMatch /\ ~commandMatch)
  ELSE TRUE

RECURSIVE FilterGroupPorts(_, _, _)
\* the inner loop of getFilteredPorts: the pairs one group contributes
FilterGroupPorts(ports, group, filter) ==
  IF Len(ports) = 0 THEN <<>>
  ELSE (IF PortMatches(ports[1], filter)
        THEN <<[port |-> ports[1], group |-> [id |-> group.id, type |-> group.type]]>>
        ELSE <<>>)
       \o FilterGroupPorts(Tail(ports), group, filter)

RECURSIVE Flatten_WithCollapsed(_, _)
\* the flat list that does not skip collapsed groups
Flatten_WithCollapsed(groups, filter) ==
  IF Len(groups) = 0 THEN <<>>
  ELSE FilterGroupPorts(groups[1].ports, groups[1], filter)
       \o Flatten_WithCollapsed(Tail(groups), filter)

RECURSIVE Flatten(_, _)
\* the recalculation of getFilteredPorts (cache miss): the flat list
Flatten(groups, filter) ==
  IF Len(groups) = 0 THEN <<>>
  ELSE (IF ~groups[1].collapsed
        THEN FilterGroupPorts(groups[1].ports, groups[1], filter)
        ELSE <<>>)
       \o Flatten(Tail(groups), filter)

\* the cache test of getFilteredPorts
CacheHit(st, groups, cache) ==
  /\ cache # Null
  /\ cache[1].filter = st.filter
  /\ cache[1].groupsHash = GroupsHash(groups)
  /\ cache[1].sortBy = st.sortBy

\* getFilteredPorts that recomputes on every call
getFilteredPorts_NoMemo(st, groups, cache) ==
  LET flat == Flatten(groups, st.filter)
  IN [filteredPorts |-> flat,
      newCache |-> Some([result |-> flat, filter |-> st.filter,
                         groupsHash |-> GroupsHash(groups), sortBy |-> st.sortBy]),
      allocated |-> TRUE]

\* getFilteredPorts(state, groups, cache).  allocated tells whether the call
\* built a new array and a new cache object (the miss path) or handed back the
\* very objects of the cache it was given (the hit path).
getFilteredPorts(st, groups, cache) ==
  IF CacheHit(st, groups, cache)
  THEN [filteredPorts |-> cache[1].result, newCache |-> cache, allocated |-> FALSE]
  ELSE LET flat == Flatten(groups, st.filter)
       IN [filteredPorts |-> flat,
           newCache |-> Some([result |-> flat, filter |-> st.filter,
                              groupsHash |-> GroupsHash(groups),
                              sortBy |-> st.sortBy]),
           allocated |-> TRUE]

\* getSelectedPort(filteredPorts, selectedIndex); items are 1-based here
getSelectedPort(items, selectedIndex) ==
  IF Len(items) = 0 THEN Null
  ELSE LET index == Min(selectedIndex, Len(items) - 1)
       IN IF index >= 0 THEN Some(items[index + 1]) ELSE Null

\* collation rank of a character for localeCompare: base letter first
CharRank(c) ==
  CASE c = " " -> 0
    [] c \in {"0", "1", "2", "3", "4", "5", "6", "7", "8", "9"} -> 1
    [] LowerChar(c) = "a" -> 2
    [] LowerChar(c) = "b" -> 3
    [] LowerChar(c) = "d" -> 4
    [] LowerChar(c) = "n" -> 5
    [] OTHER -> 6

\* lower case sorts before upper case when the base letters are equal
CaseRank(c) == IF LowerChar(c) = c THEN 0 ELSE 1

RECURSIVE LexCompare(_, _)
\* -1, 0 or 1: lexicographic order of two sequences of numbers
LexCompare(a, b) ==
  IF Len(a) = 0 /\ Len(b) = 0 THEN 0
  ELSE IF Len(a) = 0 THEN -1
  ELSE IF Len(b) = 0 THEN 1
  ELSE IF a[1] < b[1] THEN -1
  ELSE IF a[1] > b[1] THEN 1
  ELSE LexCompare(Tail(a), Tail(b))

\* String.prototype.localeCompare
localeCompare(a, b) ==
  LET primary == LexCompare([i \in 1..Len(a) |-> CharRank(a[i])],
                            [i \in 1..Len(b) |-> CharRank(b[i])])
  IN IF primary # 0 THEN primary
     ELSE LexCompare([i \in 1..Len(a) |-> CaseRank(a[i])],
                     [i \in 1..Len(b) |-> CaseRank(b[i])])

\* the comparator of applySorting
CompareInteractive(sortBy, a, b) ==
  CASE sortBy = "port" -> a.port - b.port
    [] sortBy = "process" -> localeCompare(a.processName, b.processName)
    [] sortBy = "pid" -> a.pid - b.pid
    [] OTHER -> 0

\* the comparator of applyCLISorting
CompareCLI(sortBy, a, b) ==
  CASE sortBy = "port" -> a.port - b.port
    [] sortBy = "process" -> localeCompare(a.processName, b.processName)
    [] sortBy = "pid" -> a.pid - b.pid
    [] sortBy = "user" -> localeCompare(a.user, b.user)
    [] OTHER -> a.port - b.port

\* the comparator by name of the sorting path
Compare(path, sortBy, a, b) ==
  IF path = "cli" THEN CompareCLI(sortBy, a, b)
  ELSE CompareInteractive(sortBy, a, b)

RECURSIVE InsertSorted_BeforeEquals(_, _, _, _)
\* x put in front of the elements that compare equal to it: an unstable sort
InsertSorted_BeforeEquals(sorted, x, path, sortBy) ==
  IF Len(sorted) = 0 THEN <<x>>
  ELSE IF Compare(path, sortBy, sorted[Len(sorted)], x) < 0
       THEN Append(sorted, x)
       ELSE Append(InsertSorted_BeforeEquals(SubSeq(sorted, 1, Len(sorted) - 1),
                                             x, path, sortBy),
                   sorted[Len(sorted)])

RECURSIVE InsertSorted(_, _, _, _)
\* x put behind every element that does not compare greater than it
InsertSorted(sorted, x, path, sortBy) ==
  IF Len(sorted) = 0 THEN <<x>>
  ELSE IF Compare(path, sortBy, sorted[Len(sorted)], x) <= 0
       THEN Append(sorted, x)
       ELSE Append(InsertSorted(SubSeq(sorted, 1, Len(sorted) - 1), x, path, sortBy),
                   sorted[Len(sorted)])

RECURSIVE SortPorts(_, _, _)
\* Array.prototype.sort with the comparator: a stable sort
SortPorts(ports, path, sortBy) ==
  IF Len(ports) = 0 THEN <<>>
  ELSE InsertSorted(SortPorts(SubSeq(ports, 1, Len(ports) - 1), path, sortBy),
                    ports[Len(ports)], path, sortBy)

\* applySorting(groups, sortBy): every group's ports sorted in place
applySorting(groups, sortBy) ==
  [i \in 1..Len(groups) |->
     [groups[i] EXCEPT !.ports = SortPorts(groups[i].ports, "interactive", sortBy)]]

\* applyCLISorting(groups, sortBy)
applyCLISorting(groups, sortBy) ==
  [i \in 1..Len(groups) |->
     [groups[i] EXCEPT !.ports = SortPorts(groups[i].ports, "cli", sortBy)]]

\* moveSelection stopping at the ends of the list instead of wrapping
moveSelection_NoWrap(items, currentIndex, direction) ==
  IF Len(items) = 0 THEN currentIndex
  ELSE Max(0, Min(Len(items) - 1, currentIndex + direction))

\* moveSelection(filteredPorts, currentIndex, direction)
moveSelection(items, currentIndex, direction) ==
  IF Len(items) = 0 THEN currentIndex
  ELSE LET newIndex == currentIndex + direction
       IN IF newIndex < 0 THEN Len(items) - 1
          ELSE IF newIndex >= Len(items) THEN 0
          ELSE newIndex

\* toggleGroup flipping every group
toggleGroup_AllGroups(groups, selectedPort) ==
  IF selectedPort = Null THEN groups
  ELSE [i \in 1..Len(groups) |-> [groups[i] EXCEPT !.collapsed = ~groups[i].collapsed]]

\* toggleGroup(groups, selectedPort): groups.find takes the first group of the id
toggleGroup(groups, selectedPort) ==
  IF selectedPort = Null THEN groups
  ELSE LET found == {i \in 1..Len(groups) : groups[i].id = selectedPort[1].group.id}
       IN IF found = {} THEN groups
          ELSE LET g == CHOOSE i \in found : \A j \in found : i <= j
               IN [groups EXCEPT ![g].collapsed = ~groups[g].collapsed]

\* adjustSelectedIndex(filteredPorts, currentIndex)
adjustSelectedIndex(items, currentIndex) ==
  IF currentIndex >= Len(items) THEN Max(0, Len(items) - 1)
  ELSE currentIndex

\* formatLifetime(seconds)
formatLifetime(seconds) ==
  IF seconds < 60 THEN NumToString(seconds) \o <<"s">>
  ELSE IF seconds < 3600
       THEN NumToString(seconds \div 60) \o <<"m">>
            \o NumToString(seconds % 60) \o <<"s">>
  ELSE IF seconds < 86400
       THEN NumToString(seconds \div 3600) \o <<"h">>
            \o NumToString((seconds % 3600) \div 60) \o <<"m">>
  ELSE NumToString(seconds \div 86400) \o <<"d">>
       \o NumToString((seconds % 86400) \div 3600) \o <<"h">>

(***************************************************************************)
(* dashboard-renderer.ts.  The terminal is a function from row numbers to  *)
(* lines; a line is the record of the cells written on that row.  Every    *)
(* line the renderer writes starts at column 0 and ends with a clear to    *)
(* the end of the line, so a write replaces the whole row.  A cell holds   *)
(* the value handed to pad/truncate.                                       *)
(***************************************************************************)
ScreenHeight == 10   \* rows of the terminal (getScreenSize().height)

ScreenWidth == 100   \* columns of the terminal (getScreenSize().width)

Blank == [kind |-> "blank"]

\* ANSIRenderer.clear: every row of the screen blank
ClearScreen(h) == [y \in 0..(h - 1) |-> Blank]

\* the terminal after a resize to h rows: the rows it had keep their content,
\* new rows are blank
ResizeScreen(scr, h) ==
  [y \in 0..(h - 1) |-> IF y \in DOMAIN scr THEN scr[y] ELSE Blank]

\* one row written; a row outside the screen is not shown
Put(scr, y, line) == IF y \in DOMAIN scr THEN [scr EXCEPT ![y] = line] ELSE scr

AnyModal(st) ==
  st.showHelp \/ st.showConfirm \/ st.showLogs \/ st.showCommand \/ st.showStats

\* the row budget of the port list
MaxHeightOf(st, h) == h - (IF st.showDetails THEN 6 ELSE 4)

\* renderHeader: the line of row 0
HeaderLine(st, items) ==
  [kind |-> "header",
   status |-> IF st.isKilling /\ st.killingPort # Null
              THEN <<"killing", st.killingPort[1]>>
              ELSE IF st.filter # <<>> THEN <<"filter", st.filter>>
              ELSE <<>>,
   ports |-> Len(items), sort |-> st.sortBy]

\* renderPortLine: the line of one port row
PortLine(pair, index, st, selectedIndex, w) ==
  [kind |-> "port",
   selector |-> (index = selectedIndex),
   port |-> NumToString(pair.port.port),
   process |-> pair.port.processName,
   type |-> IF pair.port.type # Null THEN pair.port.type[1] ELSE pair.group.type,
   pid |-> NumToString(pair.port.pid),
   pidBold |-> (st.isKilling /\ st.killingPort = Some(pair.port.port)),
   protocol |-> pair.port.protocol,
   user |-> pair.port.user,
   lifetime |-> IF pair.port.lifetime # Null
                THEN formatLifetime(pair.port.lifetime[1])
                ELSE <<"-", "-">>,
   command |-> IF st.showDetails /\ w - 81 - 1 > 10
               THEN Some(pair.port.command) ELSE Null]

\* renderDetails: rows height-4 and height-3
DrawDetails(scr, selected, h) ==
  Put(Put(scr, h - 4, [kind |-> "rule"]),
      h - 3,
      [kind |-> "details", port |-> selected.port.port, pid |-> selected.port.pid,
       user |-> selected.port.user, protocol |-> selected.port.protocol,
       uptime |-> IF selected.port.lifetime # Null
                  THEN Some(formatLifetime(selected.port.lifetime[1]))
                  ELSE Null])

\* the footer of renderMain and renderDelta: rows height-2 and height-1
DrawFooter(scr, st, searchBuffer, h) ==
  Put(Put(scr, h - 2, [kind |-> "rule"]),
      h - 1,
      IF st.searching
      THEN [kind |-> "search",
            buffer |-> IF searchBuffer # <<>> THEN searchBuffer ELSE <<"_">>]
      ELSE [kind |-> "hints"])

\* renderKillMessage: the toast on row height-3
DrawKillMessage(scr, st, h) ==
  IF st.killMessage = Null THEN scr
  ELSE Put(scr, h - 3, [kind |-> "toast", message |-> st.killMessage[1]])

RECURSIVE DrawPortRows(_, _, _, _, _, _)
\* the port loop of renderMain, from index i on
DrawPortRows(scr, items, i, st, h, w) ==
  IF i < Len(items) /\ i + 2 < MaxHeightOf(st, h)
  THEN DrawPortRows(Put(scr, i + 2, PortLine(items[i + 1], i, st, st.selectedIndex, w)),
                    items, i + 1, st, h, w)
  ELSE scr

\* renderMain(state, filteredPorts, searchBuffer); selected is the result of
\* the getSelectedPort callback
renderMain(scr, st, items, searchBuffer, selected, h, w) ==
  LET s1 == Put(scr, 0, HeaderLine(st, items))
      s2 == DrawPortRows(s1, items, 0, st, h, w)
      s3 == IF selected # Null /\ st.showDetails
            THEN DrawDetails(s2, selected[1], h) ELSE s2
      s4 == DrawFooter(s3, st, searchBuffer, h)
  IN DrawKillMessage(s4, st, h)

\* the five modal renderers: the title row and the closing hint
renderModal(scr, st, h) ==
  LET which == IF st.showHelp THEN "help"
               ELSE IF st.showConfirm THEN "confirm"
               ELSE IF st.showLogs THEN "logs"
               ELSE IF st.showCommand THEN "command"
               ELSE "stats"
  IN Put(Put(scr, 0, [kind |-> "modal", which |-> which]),
         h - 1, [kind |-> "close", which |-> which])

RECURSIVE Split(_, _)
\* String.prototype.split with a one-character separator
Split(s, sep) ==
  IF \A i \in 1..Len(s) : s[i] # sep THEN <<s>>
  ELSE LET first == CHOOSE i \in 1..Len(s) :
                      s[i] = sep /\ \A j \in 1..(i - 1) : s[j] # sep
       IN <<SubSeq(s, 1, first - 1)>> \o Split(SubSeq(s, first + 1, Len(s)), sep)

RECURSIVE ChunkLoop_TooWide(_, _, _, _, _, _)
\* the chunk loop cutting chunks of maxWidth + 1 characters
ChunkLoop_TooWide(word, i, maxWidth, y, h, out) ==
  IF i >= Len(word) THEN [y |-> y, out |-> out]
  ELSE LET chunk == SubSeq(word, i + 1, Min(i + maxWidth + 1, Len(word)))
           out1 == Append(out, [y |-> y, text |-> chunk])
       IN IF y + 1 >= h - 2 THEN [y |-> y + 1, out |-> out1]
          ELSE ChunkLoop_TooWide(word, i + maxWidth + 1, maxWidth, y + 1, h, out1)

RECURSIVE ChunkLoop(_, _, _, _, _, _)
\* renderCommand, the loop over the chunks of a word longer than the width:
\* out is the list of the lines written so far, each with its row
ChunkLoop(word, i, maxWidth, y, h, out) ==
  IF i >= Len(word) THEN [y |-> y, out |-> out]
  ELSE LET chunk == SubSeq(word, i + 1, Min(i + maxWidth, Len(word)))
           out1 == Append(out, [y |-> y, text |-> chunk])
       IN IF y + 1 >= h - 2 THEN [y |-> y + 1, out |-> out1]
          ELSE ChunkLoop(word, i + maxWidth, maxWidth, y + 1, h, out1)

RECURSIVE WordLoop(_, _, _, _, _, _, _)
\* renderCommand, the loop over the words from word k on, and the output of
\* the remaining line behind it
WordLoop(words, k, maxWidth, h, y, currentLine, out) ==
  IF k > Len(words)
  THEN IF currentLine # <<>> /\ y < h - 2
       THEN Append(out, [y |-> y, text |-> currentLine]) ELSE out
  ELSE LET word == words[k]
           testLine == IF currentLine # <<>> THEN currentLine \o <<" ">> \o word
                       ELSE word
       IN IF Len(testLine) <= maxWidth
          THEN WordLoop(words, k + 1, maxWidth, h, y, testLine, out)
          ELSE LET flushed == currentLine # <<>>
                   out1 == IF flushed
                           THEN Append(out, [y |-> y, text |-> currentLine]) ELSE out
                   y1 == IF flushed THEN y + 1 ELSE y
               IN IF flushed /\ y1 >= h - 2 THEN out1
                  ELSE IF Len(word) > maxWidth
                       THEN LET chunks == ChunkLoop(word, 0, maxWidth, y1, h, out1)
                            IN WordLoop(words, k + 1, maxWidth, h, chunks.y, <<>>,
                                        chunks.out)
                       ELSE WordLoop(words, k + 1, maxWidth, h, y1, word, out1)

\* renderCommand(state): the lines of the command written between the title
\* and the closing hint, in the order of the writes
renderCommand(commandContent, w, h) ==
  IF commandContent # <<>>
  THEN WordLoop(Split(commandContent, " "), 1, w, h, 2, <<>>, <<>>)
  ELSE <<>>

\* the port fields renderDelta compares
PortDataChanged(prev, curr) ==
  \/ prev.port.pid # curr.port.pid
  \/ prev.port.port # curr.port.port
  \/ prev.port.processName # curr.port.processName
  \/ prev.port.command # curr.port.command
  \/ prev.port.lifetime # curr.port.lifetime
  \/ prev.port.type # curr.port.type

\* the changedLines set taking every listed row for changed
ChangedLines_AllRows(previous, current, st, h) ==
  (IF previous.selectedIndex # current.selectedIndex
   THEN {previous.selectedIndex + 2, current.selectedIndex + 2} ELSE {})
  \cup
  {i + 2 : i \in
     {j \in 0..(Min(Len(previous.filteredPorts),
                    Len(current.filteredPorts)) - 1) :
        j + 2 < MaxHeightOf(st, h)}}

\* the changedLines set of renderDelta
ChangedLines(previous, current, st, h) ==
  (IF previous.selectedIndex # current.selectedIndex
   THEN {previous.selectedIndex + 2, current.selectedIndex + 2} ELSE {})
  \cup
  {i + 2 : i \in
     {j \in 0..(Min(Len(previous.filteredPorts),
                    Len(current.filteredPorts)) - 1) :
        /\ j + 2 < MaxHeightOf(st, h)
        /\ PortDataChanged(previous.filteredPorts[j + 1],
                           current.filteredPorts[j + 1])}}

\* the test giving the delta up already at half the row budget
TooManyChanges_AtHalf(changed, st, h) ==
  Cardinality(changed) * 2 >= MaxHeightOf(st, h)

\* the "too many changes" test of renderDelta
TooManyChanges(changed, st, h) == Cardinality(changed) * 2 > MaxHeightOf(st, h)

RECURSIVE DrawChangedLines(_, _, _, _, _, _)
\* the loop of renderDelta over the changed lines
DrawChangedLines(scr, lines, current, st, h, w) ==
  IF lines = {} THEN scr
  ELSE LET lineNum == CHOOSE l \in lines : TRUE
           index == lineNum - 2
           s1 == IF /\ lineNum >= 2
                    /\ lineNum < MaxHeightOf(st, h)
                    /\ index < Len(current.filteredPorts)
                 THEN Put(scr, lineNum,
                          PortLine(current.filteredPorts[index + 1], index, st,
                                   current.selectedIndex, w))
                 ELSE scr
       IN DrawChangedLines(s1, lines \ {lineNum}, current, st, h, w)

\* renderDelta(previous, current, state, searchBuffer)
renderDelta(scr, previous, current, st, searchBuffer, selected, h, w) ==
  LET changed == ChangedLines(previous, current, st, h)
  IN IF TooManyChanges(changed, st, h)
     THEN renderMain(ClearScreen(h), st, current.filteredPorts, <<>>,
                     selected, h, w)
     ELSE LET s1 == Put(scr, 0, HeaderLine(st, current.filteredPorts))
              s2 == DrawChangedLines(s1, changed, current, st, h, w)
              s3 == IF st.showDetails /\ selected # Null
                    THEN DrawDetails(s2, selected[1], h) ELSE s2
              s4 == DrawFooter(s3, st, searchBuffer, h)
          IN DrawKillMessage(s4, st, h)

\* canUseDelta without the comparison of the list lengths
canUseDelta_NoLength(st, previous, current, searchBuffer) ==
  /\ st.killMessage = Null
  /\ ~(st.searching /\ searchBuffer = <<>> /\ st.filter = <<>>)
  /\ previous # Null
  /\ previous[1].filter = current.filter
  /\ previous[1].sortBy = current.sortBy
  /\ previous[1].showDetails = current.showDetails

\* the canUseDelta test of DashboardRenderer.render
canUseDelta(st, previous, current, searchBuffer) ==
  LET hasKillMessage == st.killMessage # Null
      isEnteringSearchMode ==
        st.searching /\ searchBuffer = <<>> /\ st.filter = <<>>
  IN /\ ~hasKillMessage
     /\ ~isEnteringSearchMode
     /\ previous # Null
     /\ Len(previous[1].filteredPorts) = Len(current.filteredPorts)
     /\ previous[1].filter = current.filter
     /\ previous[1].sortBy = current.sortBy
     /\ previous[1].showDetails = current.showDetails

(***************************************************************************)
(* dashboard.ts: the Dashboard object.                                     *)
(***************************************************************************)
VARIABLES
  state,                \* this.state (DashboardState)
  searchBuffer,         \* this.searchBuffer
  filteredPortsCache,   \* this.filteredPortsCache
  previousRenderState,  \* this.previousRenderState
  isRunning,            \* this.isRunning
  refreshTimer,         \* this.refreshTimer is set (the interval is armed)
  filterOptions,        \* this.filterOptions.sort
  phase,                \* "constructed", "starting" (start() awaits the first
                        \* refresh), "running" (keyboard started) or "stopped"
  outstanding,          \* origins of the refresh() calls awaiting their data
  renderDue,            \* timer callbacks resumed after refresh(), render() next
  screen,               \* what the terminal shows
  height,               \* the screen size the ANSIRenderer holds
  width,
  now,                  \* Date.now()
  lastPath,             \* the path the last render took
  renderTick,           \* 1 when the last step called Dashboard.render, else 0
  deltaRows,            \* the changed lines of the last step's completed delta
  refreshed,            \* the last step was the try block of refresh() run to its end
  cleanups,             \* how often stop() cleaned the terminal up
  overtaken,            \* how many of the outstanding refresh() calls were started
                        \* before one whose result has been installed since
  call                  \* the last direct call of a dashboard-data.ts function

vars ==
  <<state, searchBuffer, filteredPortsCache, previousRenderState, isRunning,
    refreshTimer, filterOptions, phase, outstanding, renderDue, screen, height,
    width, now, lastPath, renderTick, deltaRows, refreshed, cleanups, overtaken,
    call>>

\* how long a toast lives, in clock ticks (expiresInMs)
ToastTicks == 1

\* The mutable fields of the Dashboard one handler works on.
Dash ==
  [st |-> state, buf |-> searchBuffer, cache |-> filteredPortsCache,
   prev |-> previousRenderState, scr |-> screen, path |-> lastPath,
   tick |-> 0, rows |-> {}]

\* Dashboard.getFilteredPorts: the result of the call
CallGetFilteredPorts(d) ==
  getFilteredPorts(d.st, d.st.groups, d.cache)

\* Dashboard.getFilteredPorts: the dashboard after the call
AfterGetFilteredPorts(d) == [d EXCEPT !.cache = CallGetFilteredPorts(d).newCache]

\* Dashboard.getSelectedPort: the result of the call
CallGetSelectedPort(d) ==
  getSelectedPort(CallGetFilteredPorts(d).filteredPorts, d.st.selectedIndex)

\* the toast check that never clears the toast
ExpireKillMessage_Never(st, t) == st

\* the toast check clearing the toast already at its expiry time
ExpireKillMessage_AtExpiry(st, t) ==
  IF /\ st.killMessage # Null
     /\ st.killMessageExpiresAt # Null
     /\ t >= st.killMessageExpiresAt[1]
  THEN [st EXCEPT !.killMessage = Null, !.killMessageExpiresAt = Null]
  ELSE st

\* the toast check at the head of Dashboard.render
ExpireKillMessage(st, t) ==
  IF /\ st.killMessage # Null
     /\ st.killMessageExpiresAt # Null
     /\ st.killMessageExpiresAt[1] # 0
     /\ t > st.killMessageExpiresAt[1]
  THEN [st EXCEPT !.killMessage = Null, !.killMessageExpiresAt = Null]
  ELSE st

\* DashboardRenderer.render on the main view, after its getFilteredPorts call:
\* d1 is the dashboard after that call, list its result
RenderMainView(d1, list, h, w) ==
  LET current == [filteredPorts |-> list, selectedIndex |-> d1.st.selectedIndex,
                  filter |-> d1.st.filter, sortBy |-> d1.st.sortBy,
                  showDetails |-> d1.st.showDetails]
      selected == CallGetSelectedPort(d1)
      d2 == AfterGetFilteredPorts(d1)
  IN IF canUseDelta(d1.st, d1.prev, current, d1.buf)
     THEN [d2 EXCEPT
             !.scr = renderDelta(d1.scr, d1.prev[1], current, d1.st, d1.buf,
                                 selected, h, w),
             !.path = IF TooManyChanges(ChangedLines(d1.prev[1], current, d1.st, h),
                                        d1.st, h)
                      THEN "fallback" ELSE "delta",
             !.rows = IF TooManyChanges(ChangedLines(d1.prev[1], current, d1.st, h),
                                        d1.st, h)
                      THEN {} ELSE ChangedLines(d1.prev[1], current, d1.st, h),
             !.prev = Some(current)]
     ELSE [d2 EXCEPT
             !.scr = renderMain(ClearScreen(h), d1.st, list, d1.buf,
                                selected, h, w),
             !.path = "full",
             !.prev = Some(current)]

\* Dashboard.render keeping the previous snapshot over a modal view
Render_KeepsSnapshot(d, t, h, w) ==
  LET st1 == ExpireKillMessage(d.st, t)
      d0 == [d EXCEPT !.st = st1, !.tick = d.tick + 1]
  IN IF AnyModal(st1)
     THEN [d0 EXCEPT !.scr = renderModal(ClearScreen(h), st1, h), !.path = "modal"]
     ELSE RenderMainView(AfterGetFilteredPorts(d0),
                         CallGetFilteredPorts(d0).filteredPorts, h, w)

\* Dashboard.render (with DashboardRenderer.render) at clock value t
Render(d, t, h, w) ==
  LET st1 == ExpireKillMessage(d.st, t)
      d0 == [d EXCEPT !.st = st1, !.tick = d.tick + 1]
  IN IF AnyModal(st1)
     THEN [d0 EXCEPT !.scr = renderModal(ClearScreen(h), st1, h),
                     !.path = "modal", !.prev = Null]
     ELSE RenderMainView(AfterGetFilteredPorts(d0),
                         CallGetFilteredPorts(d0).filteredPorts, h, w)

\* Dashboard.applySorting
DashApplySorting(d) ==
  [d EXCEPT !.st.groups = applySorting(d.st.groups, d.st.sortBy), !.cache = Null]

\* Dashboard.moveSelection
DashMoveSelection(d, direction) ==
  [AfterGetFilteredPorts(d) EXCEPT
     !.st.selectedIndex =
        moveSelection(CallGetFilteredPorts(d).filteredPorts,
                      d.st.selectedIndex, direction)]

\* Dashboard.toggleGroup
DashToggleGroup(d) ==
  [AfterGetFilteredPorts(d) EXCEPT
     !.st.groups = toggleGroup(d.st.groups, CallGetSelectedPort(d))]

\* the body of Dashboard.refresh clamping the selection before the new groups
\* are installed
RefreshBody_ClampFirst(d, groups, timestamp, cliSort) ==
  LET flatPorts == CallGetFilteredPorts(d).filteredPorts
      d1 == [d EXCEPT
               !.st.selectedIndex = adjustSelectedIndex(flatPorts, d.st.selectedIndex),
               !.st.ports = FlatPorts(groups), !.st.groups = groups,
               !.st.lastUpdate = timestamp]
      d2 == IF cliSort # Null
            THEN [d1 EXCEPT !.st.groups = applyCLISorting(d1.st.groups, cliSort[1])]
            ELSE DashApplySorting(d1)
  IN [d2 EXCEPT !.cache = Null]

\* the body of Dashboard.refresh installing every group expanded
RefreshBody_ResetsCollapsed(d, groups, timestamp, cliSort) ==
  LET expanded == [i \in 1..Len(groups) |-> [groups[i] EXCEPT !.collapsed = FALSE]]
      d1 == [d EXCEPT !.st.ports = FlatPorts(groups), !.st.groups = expanded,
                      !.st.lastUpdate = timestamp]
      d2 == IF cliSort # Null
            THEN [d1 EXCEPT !.st.groups = applyCLISorting(d1.st.groups, cliSort[1])]
            ELSE DashApplySorting(d1)
      flatPorts == CallGetFilteredPorts(d2).filteredPorts
      d3 == AfterGetFilteredPorts(d2)
  IN [d3 EXCEPT
        !.st.selectedIndex = adjustSelectedIndex(flatPorts, d2.st.selectedIndex),
        !.cache = Null]

\* the body of Dashboard.refresh once detectPorts and processPorts delivered
RefreshBody(d, groups, timestamp, cliSort) ==
  LET d1 == [d EXCEPT !.st.ports = FlatPorts(groups), !.st.groups = groups,
                      !.st.lastUpdate = timestamp]
      d2 == IF cliSort # Null
            THEN [d1 EXCEPT !.st.groups = applyCLISorting(d1.st.groups, cliSort[1])]
            ELSE DashApplySorting(d1)
      flatPorts == CallGetFilteredPorts(d2).filteredPorts
      d3 == AfterGetFilteredPorts(d2)
  IN [d3 EXCEPT
        !.st.selectedIndex = adjustSelectedIndex(flatPorts, d2.st.selectedIndex),
        !.cache = Null]

\* the handler's result written back to the Dashboard
Commit(d) ==
  /\ state' = d.st
  /\ searchBuffer' = d.buf
  /\ filteredPortsCache' = d.cache
  /\ previousRenderState' = d.prev
  /\ screen' = d.scr
  /\ lastPath' = d.path
  /\ renderTick' = d.tick
  /\ deltaRows' = d.rows

Init ==
  /\ state = createInitialState
  /\ searchBuffer = <<>>
  /\ filteredPortsCache = Null
  /\ previousRenderState = Null
  /\ isRunning = FALSE
  /\ refreshTimer = FALSE
  /\ filterOptions = Null
  /\ phase = "constructed"
  /\ outstanding = <<>>
  /\ renderDue = 0
  /\ height = ScreenHeight
  /\ width = ScreenWidth
  /\ screen = ClearScreen(ScreenHeight)
  /\ now = 0
  /\ lastPath = "none"
  /\ renderTick = 0
  /\ deltaRows = {}
  /\ refreshed = FALSE
  /\ cleanups = 0
  /\ overtaken = 0
  /\ call = [fn |-> "none"]

\* Dashboard.start up to its first await
Start ==
  /\ phase = "constructed"
  /\ phase' = "starting"
  /\ isRunning' = TRUE
  /\ outstanding' = Append(outstanding, "start")
  /\ refreshed' = FALSE
  /\ UNCHANGED <<call, cleanups, overtaken>>
  /\ renderTick' = 0
  /\ deltaRows' = {}
  /\ UNCHANGED <<state, searchBuffer, filteredPortsCache, previousRenderState,
                 refreshTimer, filterOptions, renderDue, screen, height, width,
                 now, lastPath>>

\* what follows the refresh() of origin o: start() arms the timer and starts
\* the keyboard; the timer callback goes on to render()
AfterRefresh(i) ==
  /\ outstanding' = SubSeq(outstanding, 1, i - 1)
                    \o SubSeq(outstanding, i + 1, Len(outstanding))
  /\ IF outstanding[i] = "start"
     THEN /\ phase' = "running"
          /\ refreshTimer' = TRUE
          /\ UNCHANGED renderDue
     ELSE /\ renderDue' = renderDue + 1
          /\ UNCHANGED <<phase, refreshTimer>>

\* Dashboard.refresh, the try block after both awaits
RefreshSucceeds ==
  \E i \in 1..Len(outstanding), scan \in Scans :
    /\ Commit(RefreshBody(Dash, processPorts(scan, state.groups), now, filterOptions))
    /\ AfterRefresh(i)
    /\ refreshed' = TRUE
    /\ UNCHANGED <<call, cleanups>>
    /\ overtaken' = IF i <= overtaken THEN overtaken - 1 ELSE i - 1
    /\ UNCHANGED <<isRunning, filterOptions, height, width, now>>

\* the catch block of Dashboard.refresh also dropping the cache
RefreshFails_DropsCache ==
  \E i \in 1..Len(outstanding) :
    /\ AfterRefresh(i)
    /\ refreshed' = FALSE
    /\ UNCHANGED <<call, cleanups>>
    /\ overtaken' = IF i <= overtaken THEN overtaken - 1 ELSE overtaken
    /\ filteredPortsCache' = Null
    /\ renderTick' = 0
    /\ deltaRows' = {}
    /\ UNCHANGED <<state, searchBuffer, previousRenderState, isRunning,
                   filterOptions, screen, height, width, now, lastPath>>

\* Dashboard.refresh, detectPorts or processPorts rejected: the catch block
RefreshFails ==
  \E i \in 1..Len(outstanding) :
    /\ AfterRefresh(i)
    /\ refreshed' = FALSE
    /\ UNCHANGED <<call, cleanups>>
    /\ overtaken' = IF i <= overtaken THEN overtaken - 1 ELSE overtaken
    /\ renderTick' = 0
    /\ deltaRows' = {}
    /\ UNCHANGED <<state, searchBuffer, filteredPortsCache, previousRenderState,
                   isRunning, filterOptions, screen, height, width, now,
                   lastPath>>

\* an event of the event loop can be taken: no resumed callback is waiting
Idle == renderDue = 0

\* the setInterval callback of startRefreshTimer up to its await, while fewer
\* than `most` refresh() calls are outstanding
TimerFires(most) ==
  /\ Idle
  /\ refreshTimer
  /\ isRunning
  /\ Len(outstanding) < most
  /\ outstanding' = Append(outstanding, "timer")
  /\ refreshed' = FALSE
  /\ UNCHANGED <<call, cleanups, overtaken>>
  /\ renderTick' = 0
  /\ deltaRows' = {}
  /\ UNCHANGED <<state, searchBuffer, filteredPortsCache, previousRenderState,
                 isRunning, refreshTimer, filterOptions, phase, renderDue, screen,
                 height, width, now, lastPath>>

TimerTick == TimerFires(MaxOutstanding)

\* the setInterval callback after its await: this.render()
TimerRender ==
  /\ renderDue > 0
  /\ renderDue' = renderDue - 1
  /\ Commit(Render(Dash, now, height, width))
  /\ refreshed' = FALSE
  /\ UNCHANGED <<call, cleanups, overtaken>>
  /\ UNCHANGED <<isRunning, refreshTimer, filterOptions, phase, outstanding,
                 height, width, now>>

\* the terminal sizes a resize can leave
Heights == {ScreenHeight - 1, ScreenHeight}

\* the "resize" listener of start(): updateScreenSize, then render.  start()
\* registers it after the first refresh and nothing removes it.
Resize ==
  \E h \in Heights :
    /\ phase \in {"running", "stopped"}
    /\ Idle
    /\ h # height
    /\ height' = h
    /\ Commit(Render([Dash EXCEPT !.scr = ResizeScreen(screen, h)], now, h, width))
    /\ refreshed' = FALSE
    /\ UNCHANGED <<call, cleanups, overtaken>>
    /\ UNCHANGED <<isRunning, refreshTimer, filterOptions, phase, outstanding,
                   renderDue, width, now>>

\* Dashboard.stop: the timer and the keyboard are stopped, the screen cleared.
\* stop() is public and tests nothing before it acts.
Stop ==
  /\ phase \in {"running", "stopped"}
  /\ Idle
  /\ cleanups < MaxStops
  /\ isRunning' = FALSE
  /\ refreshTimer' = FALSE
  /\ phase' = "stopped"
  /\ screen' = ClearScreen(height)
  /\ lastPath' = "stop"
  /\ refreshed' = FALSE
  /\ cleanups' = cleanups + 1
  /\ UNCHANGED overtaken
  /\ UNCHANGED call
  /\ renderTick' = 0
  /\ deltaRows' = {}
  /\ UNCHANGED <<state, searchBuffer, filteredPortsCache, previousRenderState,
                 filterOptions, outstanding, renderDue, height, width, now>>

\* time passes
ClockTick ==
  /\ Idle
  /\ state.killMessage # Null
  /\ now < MaxTime
  /\ now' = now + 1
  /\ refreshed' = FALSE
  /\ UNCHANGED <<call, cleanups, overtaken>>
  /\ renderTick' = 0
  /\ deltaRows' = {}
  /\ UNCHANGED <<state, searchBuffer, filteredPortsCache, previousRenderState,
                 isRunning, refreshTimer, filterOptions, phase, outstanding,
                 renderDue, screen, height, width, lastPath>>

\* a key handler ran: d is the dashboard it leaves
KeyHandled(d) ==
  /\ Commit(d)
  /\ refreshed' = FALSE
  /\ UNCHANGED <<call, cleanups, overtaken>>
  /\ UNCHANGED <<isRunning, refreshTimer, filterOptions, phase, outstanding,
                 renderDue, height, width, now>>

\* keys are delivered once keyboard.start() was called
KeysOn == phase = "running" /\ Idle

\* key.length === 1 && /[0-9]/.test(key)
IsDigitKey(key) == key \in {"0", "1", "2", "3", "4", "5", "6", "7", "8", "9"}

\* the "*" hook of setupKeyboard rendering also for the keys it does not take
SearchHook_AlwaysRenders(d, key, t, h, w) ==
  IF d.st.searching /\ IsDigitKey(key)
  THEN Render([d EXCEPT !.buf = Append(d.buf, key),
                        !.st.filter = Append(d.buf, key), !.cache = Null],
              t, h, w)
  ELSE IF d.st.searching /\ key = "backspace"
  THEN LET sliced == SubSeq(d.buf, 1, Len(d.buf) - 1)
       IN Render([d EXCEPT !.buf = sliced, !.st.filter = sliced, !.cache = Null],
                 t, h, w)
  ELSE Render(d, t, h, w)

\* the "*" hook of setupKeyboard, called for every key
SearchHook(d, key, t, h, w) ==
  IF d.st.searching /\ IsDigitKey(key)
  THEN Render([d EXCEPT !.buf = Append(d.buf, key),
                        !.st.filter = Append(d.buf, key), !.cache = Null],
              t, h, w)
  ELSE IF d.st.searching /\ key = "backspace"
  THEN LET sliced == SubSeq(d.buf, 1, Len(d.buf) - 1)
       IN Render([d EXCEPT !.buf = sliced, !.st.filter = sliced, !.cache = Null],
                 t, h, w)
  ELSE d

\* the "*" hook of setupKeyboard, a digit key
SearchDigit ==
  \E key \in KeyDigits :
    /\ KeysOn
    /\ state.searching
    /\ Len(searchBuffer) < MaxBufLen
    /\ KeyHandled(SearchHook(Dash, key, now, height, width))

\* the "*" hook of setupKeyboard, backspace
SearchBackspace ==
  /\ KeysOn
  /\ state.searching
  /\ KeyHandled(SearchHook(Dash, "backspace", now, height, width))

(***************************************************************************)
(* The key table of dashboard-handlers.ts, which drives the Dashboard      *)
(* through getHandlers(): one state transition and one render per key.     *)
(***************************************************************************)
\* the main view takes the navigation keys
MainKeysOn == KeysOn /\ ~AnyModal(state) /\ ~state.searching

\* up / down: moveSelection(delta)
KeyMove ==
  \E delta \in {-1, 1} :
    /\ MainKeysOn
    /\ KeyHandled(Render(DashMoveSelection(Dash, delta), now, height, width))

\* the selection clamped to the current list, as every state operation leaves it
ClampSelection(d) ==
  [AfterGetFilteredPorts(d) EXCEPT
     !.st.selectedIndex =
        adjustSelectedIndex(CallGetFilteredPorts(d).filteredPorts, d.st.selectedIndex)]

\* g: toggleGroupAtSelection
KeyToggleGroup ==
  /\ MainKeysOn
  /\ KeyHandled(Render(ClampSelection(DashToggleGroup(Dash)), now, height, width))

\* the sort keys the user presses
SortKeys == {"port", "process"}

\* 1 / 2 / 3: the interactive sort key
KeySort ==
  \E key \in SortKeys :
    /\ MainKeysOn
    /\ KeyHandled(Render(DashApplySorting([Dash EXCEPT !.st.sortBy = key]),
                         now, height, width))

\* d: the details strip on or off
KeyToggleDetails ==
  /\ MainKeysOn
  /\ KeyHandled(Render([Dash EXCEPT !.st.showDetails = ~state.showDetails],
                       now, height, width))

\* /: the user starts composing a filter
KeySearchStart ==
  /\ MainKeysOn
  /\ KeyHandled(Render([Dash EXCEPT !.st.searching = TRUE, !.buf = <<>>],
                       now, height, width))

\* Enter while searching: the filter is applied
KeySearchApply ==
  /\ KeysOn
  /\ state.searching
  /\ KeyHandled(Render([Dash EXCEPT !.st.searching = FALSE], now, height, width))

\* Esc while searching: the filter is discarded
KeySearchCancel ==
  /\ KeysOn
  /\ state.searching
  /\ KeyHandled(Render(ClampSelection([Dash EXCEPT !.st.searching = FALSE,
                                                   !.st.filter = <<>>,
                                                   !.buf = <<>>, !.cache = Null]),
                       now, height, width))

Modals == {"help", "confirm", "logs", "command", "stats"}

\* enterModal(kind): exactly the flag of kind is set
SetModal(st, kind) ==
  [st EXCEPT !.showHelp = (kind = "help"), !.showConfirm = (kind = "confirm"),
             !.showLogs = (kind = "logs"), !.showCommand = (kind = "command"),
             !.showStats = (kind = "stats")]

\* ? / v / l / s and the confirmation prompt: enterModal(kind)
KeyEnterModal ==
  \E kind \in Modals :
    /\ KeysOn
    /\ ~state.searching
    /\ KeyHandled(Render([Dash EXCEPT !.st = SetModal(state, kind)],
                         now, height, width))

\* Esc in a modal view: exitModal
KeyExitModal ==
  /\ KeysOn
  /\ AnyModal(state)
  /\ KeyHandled(Render([Dash EXCEPT !.st = SetModal(state, "none")],
                       now, height, width))

\* the kill of the selected port completed: recordKillMessage
KillCompleted ==
  \E message \in {"killed"} :
    /\ MainKeysOn
    /\ now + ToastTicks < MaxTime
    /\ CallGetSelectedPort(Dash) # Null
    /\ KeyHandled(Render([Dash EXCEPT
                            !.st.killMessage = Some(message),
                            !.st.killMessageExpiresAt = Some(now + ToastTicks),
                            !.cache = Null],
                         now, height, width))

Next ==
  \/ Start
  \/ RefreshSucceeds
  \/ RefreshFails
  \/ TimerTick
  \/ TimerRender
  \/ Resize
  \/ Stop
  \/ ClockTick
  \/ SearchDigit
  \/ SearchBackspace
  \/ KeyMove
  \/ KeyToggleGroup
  \/ KeySort
  \/ KeyToggleDetails
  \/ KeySearchStart
  \/ KeySearchApply
  \/ KeySearchCancel
  \/ KeyEnterModal
  \/ KeyExitModal
  \/ KillCompleted

Spec == Init /\ [][Next]_vars

\* a refresh() settles in this step, by its try block or by its catch block
RefreshSettles == Len(outstanding') < Len(outstanding)

\* a timer callback resumed after its await runs its render()
CallbackResumes == renderDue' < renderDue

\* The interval keeps firing while it is armed, every refresh() settles (weak
\* fairness of RefreshSettles, enabled while a refresh is outstanding), every
\* resumed callback runs (weak fairness of CallbackResumes), and time passes.
SpecLive ==
  /\ Init
  /\ [][Next]_vars
  /\ WF_vars(TimerTick)
  /\ ([]<>(Len(outstanding) = 0) \/ []<><<RefreshSettles>>_vars)
  /\ ([]<>(renderDue = 0) \/ []<><<CallbackResumes>>_vars)
  /\ SF_vars(ClockTick)

\* refresh() calls the interval starts before an earlier one has settled
MaxOverlap == 2

\* the interval firing whether or not the refresh() of an earlier tick has settled
TimerTickOverlapping == TimerFires(MaxOverlap)

\* The handlers that start, settle and follow a refresh(), and the keys that
\* change the groups in between.
NextOverlap ==
  \/ Start
  \/ RefreshSucceeds
  \/ RefreshFails
  \/ TimerTickOverlapping
  \/ TimerRender
  \/ Stop
  \/ KeyMove
  \/ KeyToggleGroup
  \/ KeySort

SpecOverlap == Init /\ [][NextOverlap]_vars

\* the dashboard constructed with a sort option from the command line
InitCli ==
  \E sort \in CliSorts :
    /\ filterOptions = sort
    /\ state = createInitialState
    /\ searchBuffer = <<>>
    /\ filteredPortsCache = Null
    /\ previousRenderState = Null
    /\ isRunning = FALSE
    /\ refreshTimer = FALSE
    /\ phase = "constructed"
    /\ outstanding = <<>>
    /\ renderDue = 0
    /\ height = ScreenHeight
    /\ width = ScreenWidth
    /\ screen = ClearScreen(ScreenHeight)
    /\ now = 0
    /\ lastPath = "none"
    /\ renderTick = 0
    /\ deltaRows = {}
    /\ refreshed = FALSE
    /\ cleanups = 0
    /\ overtaken = 0
    /\ call = [fn |-> "none"]

SpecCli == InitCli /\ [][Next]_vars

(***************************************************************************)
(* The functions of dashboard-data.ts called directly, on inputs drawn     *)
(* from bounded sets; call records the arguments and the result.           *)
(***************************************************************************)
MaxDelta == 6   \* directions given to moveSelection run over -MaxDelta..MaxDelta

MaxIndex == 6   \* indices given to the selection functions run over -2..MaxIndex

PortD == [PortC EXCEPT !.port = 54, !.pid = 8, !.processName = <<"N", "d">>]

\* group lists as processPorts can deliver them, up to five ports
DataScans ==
  Scans \cup
    { <<Group(<<"d">>, "dev", <<PortB, PortA, PortA2>>),
        Group(<<"s">>, "sys", <<PortD, PortC>>)>>,
      <<Group(<<"d">>, "dev", <<PortA2, PortD, PortA, PortC, PortB>>)>> }

\* the same with every choice of collapsed groups
DataGroups ==
  UNION { { [i \in 1..Len(scan) |-> [scan[i] EXCEPT !.collapsed = (i \in c)]] :
            c \in SUBSET (1..Len(scan)) } : scan \in DataScans }

DataFilters ==
  { <<>>, <<"8">>, <<"3">>, <<"D">>, <<"n">>, <<"d", "b">>, <<"5", "4">> }

DataIndices == (-2)..MaxIndex

DashboardUnchanged ==
  UNCHANGED <<state, searchBuffer, filteredPortsCache, previousRenderState,
              isRunning, refreshTimer, filterOptions, phase, outstanding,
              renderDue, screen, height, width, now, lastPath, renderTick,
              deltaRows, refreshed, cleanups, overtaken>>

\* a DashboardState holding the given groups, filter, sort key and selection
DataState(groups, filter, sortBy, index) ==
  [createInitialState EXCEPT !.groups = groups, !.filter = filter,
                             !.sortBy = sortBy, !.selectedIndex = index]

CallMoveSelection ==
  \E groups \in DataGroups, index \in DataIndices,
     direction \in (-MaxDelta)..MaxDelta :
    LET items == Flatten(groups, <<>>)
    IN /\ call.fn = "none"
       /\ call' = [fn |-> "moveSelection", items |-> items, index |-> index,
                   direction |-> direction,
                   result |-> moveSelection(items, index, direction)]
       /\ DashboardUnchanged

CallAdjustSelectedIndex ==
  \E groups \in DataGroups, index \in DataIndices :
    LET items == Flatten(groups, <<>>)
    IN /\ call.fn = "none"
       /\ call' = [fn |-> "adjustSelectedIndex", items |-> items, index |-> index,
                   result |-> adjustSelectedIndex(items, index)]
       /\ DashboardUnchanged

\* getFilteredPorts, getSelectedPort, toggleGroup, getFilteredPorts again with
\* the cache of the first call
CallToggleGroup ==
  \E groups \in DataGroups, filter \in DataFilters, index \in 0..MaxIndex :
    LET st == DataState(groups, filter, "port", index)
        first == getFilteredPorts(st, groups, Null)
        selected == getSelectedPort(first.filteredPorts, index)
        toggled == toggleGroup(groups, selected)
        second == getFilteredPorts([st EXCEPT !.groups = toggled], toggled,
                                   first.newCache)
    IN /\ call.fn = "none"
       /\ call' = [fn |-> "toggleGroup", groups |-> groups, selected |-> selected,
                   result |-> toggled, before |-> first.filteredPorts,
                   after |-> second.filteredPorts, allocated |-> second.allocated]
       /\ DashboardUnchanged

\* getFilteredPorts given no cache
CallGetFilteredPortsMiss ==
  \E groups \in DataGroups, filter \in DataFilters :
    /\ call.fn = "none"
    /\ call' = [fn |-> "getFilteredPorts", groups |-> groups, filter |-> filter,
                result |-> getFilteredPorts(DataState(groups, filter, "port", 0),
                                            groups, Null)]
    /\ DashboardUnchanged

CallApplySorting ==
  \E groups \in DataGroups, sortBy \in {"port", "process", "pid"} :
    /\ call.fn = "none"
    /\ call' = [fn |-> "applySorting", groups |-> groups, sortBy |-> sortBy,
                result |-> applySorting(groups, sortBy)]
    /\ DashboardUnchanged

CallApplyCLISorting ==
  \E groups \in DataGroups, sortBy \in {"port", "process", "pid", "user"} :
    /\ call.fn = "none"
    /\ call' = [fn |-> "applyCLISorting", groups |-> groups, sortBy |-> sortBy,
                result |-> applyCLISorting(groups, sortBy)]
    /\ DashboardUnchanged

MaxCommandLen == 5   \* longest command drawn from CommandChars

MaxWrapWidth == 3    \* the wrap widths run over 1..MaxWrapWidth

CommandChars == {"a", "b", " "}

\* a command of 200 characters without a space
LongCommand == [i \in 1..200 |-> DigitChar(i % 10)]

\* a command of four words of two characters
FourWords ==
  <<"a", "b", " ", "a", "b", " ", "a", "b", " ", "a", "b">>

\* state.commandContent: the command line of the selected process
Commands ==
  UNION { [1..n -> CommandChars] : n \in 0..MaxCommandLen }
  \cup {LongCommand, FourWords}

\* terminals with two and with five rows for the command
CommandHeights == {6, 9}

CallRenderCommand ==
  \E command \in Commands, w \in (1..MaxWrapWidth) \cup {40},
     h \in CommandHeights :
    /\ call.fn = "none"
    /\ call' = [fn |-> "renderCommand", command |-> command, width |-> w,
                height |-> h, result |-> renderCommand(command, w, h)]
    /\ DashboardUnchanged

\* the keys handed to the "*" hook
HookKeys == KeyDigits \cup {"0", "backspace", "enter", "escape", "a", "g"}

\* search buffers the hook can have built
HookBuffers == {<<>>, <<"8">>, <<"3", "8">>}

\* a cache whose keys fit the state and whose list is not the list of the
\* state: a hit on it is seen in the result
MarkedCache(st) ==
  Some([result |-> <<>>, filter |-> st.filter, groupsHash |-> GroupsHash(st.groups),
        sortBy |-> st.sortBy])

\* a Dashboard after a render of the main view, in or out of search mode
HookDash(groups, searching, buffer, marked) ==
  LET st == [DataState(groups, buffer, "port", 0) EXCEPT !.searching = searching]
      d == [st |-> st, buf |-> buffer, cache |-> Null, prev |-> Null,
            scr |-> ClearScreen(ScreenHeight), path |-> "none", tick |-> 0,
            rows |-> {}]
      drawn == Render(d, 0, ScreenHeight, ScreenWidth)
  IN [drawn EXCEPT !.tick = 0, !.rows = {},
                   !.cache = IF marked THEN MarkedCache(st) ELSE drawn.cache]

CallSearchHook ==
  \E groups \in Scans, searching \in BOOLEAN, buffer \in HookBuffers,
     marked \in BOOLEAN, key \in HookKeys :
    LET d == HookDash(groups, searching, buffer, marked)
    IN /\ call.fn = "none"
       /\ call' = [fn |-> "searchHook", key |-> key, before |-> d,
                   after |-> SearchHook(d, key, 0, ScreenHeight, ScreenWidth)]
       /\ DashboardUnchanged

\* the call has returned and the next one can be made
CallReturns ==
  /\ call.fn # "none"
  /\ call' = [fn |-> "none"]
  /\ DashboardUnchanged

NextData ==
  \/ CallReturns
  \/ CallMoveSelection
  \/ CallAdjustSelectedIndex
  \/ CallToggleGroup
  \/ CallGetFilteredPortsMiss
  \/ CallApplySorting
  \/ CallApplyCLISorting
  \/ CallRenderCommand
  \/ CallSearchHook

SpecData == Init /\ [][NextData]_vars

(***************************************************************************)
(* The claims.                                                             *)
(***************************************************************************)
\* the flattened filtered list of the current state, computed with no cache
CurrentList == Flatten(state.groups, state.filter)

\* this step calls Dashboard.render
RenderStep == renderTick' = 1

\* a valid selection for a list of n entries
ValidIndex(index, n) == IF n = 0 THEN index = 0 ELSE 0 <= index /\ index < n

\* C1: in every reachable state selectedIndex is an index into the current
\* flattened filtered list, or 0 when that list is empty.
C1_SelectedIndexValid == ValidIndex(state.selectedIndex, Len(CurrentList))

FullRepaintOfSnapshot ==
  LET snap == previousRenderState[1]
      st == [state EXCEPT !.selectedIndex = snap.selectedIndex]
  IN renderMain(ClearScreen(height), st, snap.filteredPorts, searchBuffer,
                getSelectedPort(snap.filteredPorts, snap.selectedIndex),
                height, width)

\* C3: after a delta repaint every visible port row equals the row a full
\* repaint of the same state draws.
C3_DeltaRowsMatchFullRepaint ==
  lastPath = "delta" =>
    \A y \in 2..(MaxHeightOf(state, height) - 1) :
      screen[y] = FullRepaintOfSnapshot[y]

\* the conditions of the delta path, on the snapshot before and after a render
DeltaEligible ==
  /\ previousRenderState # Null
  /\ state'.killMessage = Null
  /\ ~(state'.searching /\ searchBuffer' = <<>> /\ state'.filter = <<>>)
  /\ Len(previousRenderState[1].filteredPorts)
       = Len(previousRenderState'[1].filteredPorts)
  /\ previousRenderState[1].filter = previousRenderState'[1].filter
  /\ previousRenderState[1].sortBy = previousRenderState'[1].sortBy
  /\ previousRenderState[1].showDetails = previousRenderState'[1].showDetails

\* C4: a main-view render takes the delta path only if a previous snapshot
\* exists, there is no toast, search mode is not just entered, and length,
\* filter, sortBy and showDetails are equal; otherwise it is a full repaint of
\* a cleared screen.
C4_DeltaOnlyWhenEligible ==
  [][RenderStep /\ ~AnyModal(state') =>
       /\ lastPath' \in {"delta", "fallback"} => DeltaEligible
       /\ ~DeltaEligible =>
            /\ lastPath' = "full"
            /\ screen' = renderMain(ClearScreen(height'), state',
                                    previousRenderState'[1].filteredPorts,
                                    searchBuffer',
                                    getSelectedPort(CurrentList', state'.selectedIndex),
                                    height', width')]_vars

C4_Witness ==
  /\ lastPath = "delta"
  /\ previousRenderState # Null
  /\ Len(previousRenderState[1].filteredPorts) >= 2

\* C5: a render with a modal flag set drops the previous snapshot, and the
\* first main-view render after a modal render is a full repaint.
C5_ModalDropsSnapshot ==
  [][RenderStep =>
       /\ AnyModal(state') => previousRenderState' = Null /\ lastPath' = "modal"
       /\ lastPath = "modal" /\ ~AnyModal(state') => lastPath' = "full"]_vars

C5_Witness == lastPath = "modal" /\ previousRenderState = Null /\ state.showLogs

\* C6: the list the memoized getFilteredPorts returns equals the list computed
\* with no cache on the same state and groups.
C6_MemoEqualsFresh ==
  getFilteredPorts(state, state.groups, filteredPortsCache).filteredPorts
    = getFilteredPorts(state, state.groups, Null).filteredPorts

C6_Witness ==
  /\ CacheHit(state, state.groups, filteredPortsCache)
  /\ \E i \in 1..Len(state.groups) : state.groups[i].collapsed
  /\ state.filter # <<>>
  /\ state.sortBy = "process"
  /\ Len(filteredPortsCache[1].result) >= 1

\* C7: a second getFilteredPorts call with unchanged inputs and the cache of
\* the first returns the same list and the same cache object, allocating
\* nothing.
C7_SecondCallReturnsCached ==
  LET first == getFilteredPorts(state, state.groups, filteredPortsCache)
      second == getFilteredPorts(state, state.groups, first.newCache)
  IN /\ ~second.allocated
     /\ second.filteredPorts = first.filteredPorts
     /\ second.newCache = first.newCache

C7_Witness ==
  /\ filteredPortsCache = Null
  /\ Len(CurrentList) >= 2
  /\ state.filter # <<>>

\* C8: a toast leaves the state only in a render call made after its expiry
\* time, which clears both fields before the frame is drawn; a render at or
\* before the expiry time keeps it.
C8_ToastClearedOnlyByLateRender ==
  [][/\ state.killMessage # Null /\ state'.killMessage = Null =>
          /\ RenderStep
          /\ state'.killMessageExpiresAt = Null
          /\ now' > state.killMessageExpiresAt[1]
     /\ RenderStep /\ state'.killMessage # Null =>
          /\ state'.killMessageExpiresAt # Null
          /\ now' <= state'.killMessageExpiresAt[1]
     /\ RenderStep /\ state'.killMessage = Null /\ lastPath' = "full" =>
          screen'[height' - 3].kind # "toast"]_vars

C8_Witness == state.killMessage = Null /\ now > ToastTicks

\* C9: once a render has happened after the expiry time of a toast, row
\* height-3 of the terminal no longer shows the toast.
C9_NoToastOnScreenAfterExpiry ==
  state.killMessage = Null => screen[height - 3].kind # "toast"

\* every group's ports are in the order of the interactive sort key
GroupsSorted(groups, sortBy) ==
  \A g \in 1..Len(groups) :
    \A i, j \in 1..Len(groups[g].ports) :
      i < j => CompareInteractive(sortBy, groups[g].ports[i], groups[g].ports[j]) <= 0

RefreshFailedStep == Len(outstanding') < Len(outstanding) /\ ~refreshed'

\* C11: a refresh whose detectPorts or processPorts fails leaves ports, groups,
\* lastUpdate, selectedIndex and the cache as they were, draws nothing, keeps
\* the timer armed and the dashboard running (the start() it belongs to goes on
\* to arm the timer and start the keyboard).
C11_RefreshFailureKeepsState ==
  [][RefreshFailedStep =>
       /\ state' = state
       /\ filteredPortsCache' = filteredPortsCache
       /\ screen' = screen
       /\ isRunning' = isRunning
       /\ refreshTimer' = (refreshTimer \/ phase = "starting")
       /\ phase' = (IF phase = "starting" THEN "running" ELSE phase)]_vars

C11_Witness ==
  /\ renderDue = 1
  /\ ~refreshed
  /\ refreshTimer
  /\ isRunning
  /\ Len(state.groups) = 2
  /\ filteredPortsCache # Null

\* C12: the terminal cleanup of stop() runs once in a run of the dashboard,
\* however often stop() is called.
C12_CleanupRunsOnce == cleanups <= 1

\* C13: once stop() has returned no timer tick starts a refresh and nothing is
\* drawn any more: the cleanup stays the last write to the terminal.
C13_NothingDrawnAfterStop ==
  [][phase = "stopped" /\ cleanups' = cleanups =>
       /\ ~RenderStep
       /\ screen' = screen
       /\ Len(outstanding') <= Len(outstanding)]_vars

\* C14: the render a resize notification triggers is a full repaint at the new
\* size, never a delta repaint.
C14_ResizeRepaintsFully ==
  [][height' # height => RenderStep /\ lastPath' \in {"full", "modal"}]_vars


\* C15: moveSelection on a non-empty list of length n with index i in 0..n-1
\* returns i+delta when that is in 0..n-1, n-1 when i+delta < 0 and 0 when
\* i+delta >= n, so the result is always in 0..n-1; on an empty list it
\* returns the index unchanged.
C15_MoveSelectionWraps ==
  call.fn = "moveSelection" =>
    LET n == Len(call.items)
        target == call.index + call.direction
    IN /\ (n = 0) => call.result = call.index
       /\ (n > 0 /\ call.index \in 0..(n - 1)) =>
            /\ call.result \in 0..(n - 1)
            /\ (target \in 0..(n - 1)) => call.result = target
            /\ (target < 0) => call.result = n - 1
            /\ (target >= n) => call.result = 0

\* the first of five items left upwards: the selection wraps to the last
C15_Witness ==
  /\ call.fn = "moveSelection"
  /\ Len(call.items) = 5
  /\ call.index = 0
  /\ call.direction = -1
  /\ call.result = 4

PairsOutside(items, id) ==
  SelectSeq(items, LAMBDA pair : pair.group.id # id)

\* C17: toggling flips the collapsed flag of the group owning the selected
\* port and of no other group, and changes nothing when no port is selected;
\* after a collapse the next getFilteredPorts misses the cache, and its list
\* holds no port of the collapsed group and the unchanged entries of the others.
C17_ToggleFlipsOwningGroup ==
  call.fn = "toggleGroup" =>
    IF call.selected = Null
    THEN call.result = call.groups
    ELSE LET id == call.selected[1].group.id
         IN /\ Len(call.result) = Len(call.groups)
            /\ \A i \in 1..Len(call.groups) :
                 IF call.groups[i].id = id
                 THEN call.result[i] =
                        [call.groups[i] EXCEPT !.collapsed = ~call.groups[i].collapsed]
                 ELSE call.result[i] = call.groups[i]
            /\ (\E i \in 1..Len(call.result) :
                  call.result[i].id = id /\ call.result[i].collapsed) =>
                 /\ call.allocated
                 /\ call.after = PairsOutside(call.before, id)
                 /\ \A k \in 1..Len(call.after) : call.after[k].group.id # id

\* the first of two groups is collapsed at a selected port of its own, and the
\* list keeps the ports of the second group
C17_Witness ==
  /\ call.fn = "toggleGroup"
  /\ call.selected # Null
  /\ Len(call.groups) = 2
  /\ call.result[1].collapsed
  /\ ~call.result[2].collapsed
  /\ Len(call.after) > 0
  /\ Len(call.after) < Len(call.before)


OccursIgnoringCase(s, sub) ==
  \E i \in 0..(Len(s) - Len(sub)) :
    \A k \in 1..Len(sub) : LowerChar(s[i + k]) = LowerChar(sub[k])

\* sub occurs in s letter for letter
Occurs(s, sub) ==
  \E i \in 0..(Len(s) - Len(sub)) : \A k \in 1..Len(sub) : s[i + k] = sub[k]

\* the port is to be listed under the filter
Kept(port, filter) ==
  \/ filter = <<>>
  \/ Occurs(NumToString(port.port), filter)
  \/ OccursIgnoringCase(port.processName, filter)
  \/ OccursIgnoringCase(port.command, filter)

\* the pairs the first k groups are to contribute, in order
RECURSIVE ExpectedPairs(_, _, _)
ExpectedPairs(groups, filter, k) ==
  IF k = 0 THEN <<>>
  ELSE LET g == groups[k]
           kept == SelectSeq(g.ports, LAMBDA port : Kept(port, filter))
       IN ExpectedPairs(groups, filter, k - 1) \o
            (IF g.collapsed THEN <<>>
             ELSE [n \in 1..Len(kept) |->
                     [port |-> kept[n], group |-> [id |-> g.id, type |-> g.type]]])

\* C19: on a cache miss getFilteredPorts returns exactly the pairs of the
\* non-collapsed groups, groups in their given order and ports in the group's
\* order, a port being kept iff the filter is empty, or a substring of the
\* decimal port number, or a case-insensitive substring of the process name or
\* of the command.
C19_MissReturnsFilteredPairs ==
  call.fn = "getFilteredPorts" =>
    /\ call.result.allocated
    /\ call.result.filteredPorts =
         ExpectedPairs(call.groups, call.filter, Len(call.groups))

\* the filter "D" keeps a port by its process name "Nd" only, in the second
\* place of a list whose other group is collapsed
C19_Witness ==
  /\ call.fn = "getFilteredPorts"
  /\ call.filter = <<"D">>
  /\ Len(call.groups) = 2
  /\ call.groups[2].collapsed
  /\ ~call.groups[1].collapsed
  /\ Len(call.result.filteredPorts) = 3
  /\ call.result.filteredPorts[2].port = PortA


\* port a does not come after port b in ascending order of the key
KeyLeq(sortBy, a, b) ==
  CASE sortBy = "port" -> a.port <= b.port
    [] sortBy = "pid" -> a.pid <= b.pid
    [] sortBy = "process" -> localeCompare(a.processName, b.processName) <= 0
    [] sortBy = "user" -> localeCompare(a.user, b.user) <= 0

\* after is before rearranged by perm: after[k] is the element before[perm[k]]
Rearranges(perm, before, after) ==
  /\ \A k, l \in DOMAIN perm : perm[k] = perm[l] => k = l
  /\ \A k \in DOMAIN perm : after[k] = before[perm[k]]

\* after is before in ascending order of the key, elements of equal key in
\* their order in before
StablySorted(sortBy, before, after) ==
  /\ Len(after) = Len(before)
  /\ \E perm \in [1..Len(before) -> 1..Len(before)] :
       /\ Rearranges(perm, before, after)
       /\ \A k, l \in 1..Len(after) :
            k < l =>
              /\ KeyLeq(sortBy, after[k], after[l])
              /\ KeyLeq(sortBy, after[l], after[k]) => perm[k] < perm[l]

\* C20: applySorting and applyCLISorting leave the list of groups and every
\* field of a group but ports as they were, and each group's ports are the
\* ports it had, in ascending order of the key (port and pid as numbers,
\* process and user as strings), ports of equal key in their previous order.
C20_SortingIsStablePerGroup ==
  call.fn \in {"applySorting", "applyCLISorting"} =>
    /\ Len(call.result) = Len(call.groups)
    /\ \A i \in 1..Len(call.groups) :
         /\ call.result[i] = [call.groups[i] EXCEPT !.ports = call.result[i].ports]
         /\ StablySorted(call.sortBy, call.groups[i].ports, call.result[i].ports)

\* five ports sorted by port number: the two entries of port 30 come first
\* and keep their order, UDP before TCP
C20_Witness ==
  /\ call.fn = "applySorting"
  /\ call.sortBy = "port"
  /\ Len(call.groups) = 1
  /\ call.groups[1].ports = <<PortA2, PortD, PortA, PortC, PortB>>
  /\ call.result[1].ports = <<PortA2, PortA, PortC, PortD, PortB>>


\* the texts of the lines written, in the order of the writes
WrittenTexts(writes) == [n \in 1..Len(writes) |-> writes[n].text]

\* the words are non-empty and none is longer than the width
PlainWords(command, w) ==
  \A k \in 1..Len(Split(command, " ")) :
    LET word == Split(command, " ")[k] IN Len(word) >= 1 /\ Len(word) <= w

\* the first word of a line
FirstWord(line) == Split(line, " ")[1]

\* C21: the word wrap of the command view writes no line longer than the
\* terminal width; words are appended while the line fits, a word longer than
\* the width is cut into chunks of the width; 200 characters without a space
\* at width 40 give 5 lines of at most 40 characters whose concatenation is
\* the command.
C21_WrapStaysWithinWidth ==
  call.fn = "renderCommand" =>
    LET lines == WrittenTexts(call.result)
        rows == call.height - 4
    IN /\ \A n \in 1..Len(lines) : Len(lines[n]) <= call.width
       /\ (PlainWords(call.command, call.width) /\ Len(lines) < rows) =>
            /\ Join(lines, <<" ">>) = call.command
            /\ \A n \in 1..(Len(lines) - 1) :
                 Len(lines[n]) + 1 + Len(FirstWord(lines[n + 1])) > call.width
       /\ (Len(call.command) = 200 /\ call.width = 40 /\ call.height = 9) =>
            /\ Len(lines) = 5
            /\ Join(lines, <<>>) = call.command
            /\ \A n \in 1..5 : call.result[n].y = n + 1

\* the command of 200 characters is written as five lines at width 40
C21_Witness ==
  /\ call.fn = "renderCommand"
  /\ call.command = LongCommand
  /\ call.width = 40
  /\ call.height = 9
  /\ Len(call.result) = 5


\* the handling of a timer tick or of start() has begun and is not finished:
\* its refresh() is awaited, or its render() is next
EventInProgress == Len(outstanding) > 0 \/ renderDue > 0

\* this step belongs to an event in progress: its refresh() settles, or its
\* render() runs
ContinuesEvent == Len(outstanding') < Len(outstanding) \/ renderDue' < renderDue

\* C22: while the handling of one event is in progress, from the start of a
\* timer tick's refresh to the end of its render, no handler of another event
\* changes the Dashboard State or calls render.
C22_EventHandlingAtomic ==
  [][EventInProgress /\ ~ContinuesEvent => state' = state /\ ~RenderStep]_vars


\* C23: right after every successful refresh, with or without a sort option
\* from the command line, selectedIndex is below the length of the flattened
\* list of the newly installed groups, or 0 when that list is empty.
C23_RefreshClampsAgainstNewList ==
  [][refreshed' => ValidIndex(state'.selectedIndex, Len(CurrentList'))]_vars


\* the footer line of search mode for the given buffer
SearchPrompt(buffer) ==
  [kind |-> "search", buffer |-> IF buffer # <<>> THEN buffer ELSE <<"_">>]

\* C24: every main-view render while searching is true, whether full, delta
\* or delta fallen back to a full repaint, leaves the search prompt with the
\* current search buffer (the placeholder for an empty buffer) on the footer
\* line.
C24_SearchPromptShowsBuffer ==
  [][RenderStep /\ ~AnyModal(state') /\ state'.searching =>
       screen'[height' - 1] = SearchPrompt(searchBuffer')]_vars


\* the changed rows of a delta repaint from snapshot prev to snapshot cur: the
\* old and the new selected row, and the listed rows whose compared fields
\* differ at the same index
ChangedRows(prev, cur, budget) ==
  (IF prev.selectedIndex # cur.selectedIndex
   THEN {prev.selectedIndex + 2, cur.selectedIndex + 2} ELSE {})
  \cup
  {y \in 2..(budget - 1) :
     /\ y - 1 <= Len(prev.filteredPorts)
     /\ y - 1 <= Len(cur.filteredPorts)
     /\ PortDataChanged(prev.filteredPorts[y - 1], cur.filteredPorts[y - 1])}

\* the frame a full repaint draws after this step
FullRepaintAfterStep ==
  LET list == previousRenderState'[1].filteredPorts
  IN renderMain(ClearScreen(height'), state', list, searchBuffer',
                getSelectedPort(list, state'.selectedIndex), height', width')

\* C25: a render that enters the delta repaint gives it up iff the changed
\* rows number more than half the row budget (height-4, or height-6 with
\* details); then the screen is cleared and everything redrawn; otherwise
\* nothing is cleared, and the rows outside the changed set keep what they
\* showed.
C25_DeltaAbandonedAboveHalfBudget ==
  [][RenderStep /\ lastPath' \in {"delta", "fallback"} =>
       LET budget == height' - (IF state'.showDetails THEN 6 ELSE 4)
           changed == ChangedRows(previousRenderState[1], previousRenderState'[1],
                                  budget)
       IN IF Cardinality(changed) * 2 > budget
          THEN /\ lastPath' = "fallback"
               /\ \A y \in 0..(height' - 2) : screen'[y] = FullRepaintAfterStep[y]
               /\ screen'[height' - 1].kind \in {"search", "hints"}
          ELSE /\ lastPath' = "delta"
               /\ \A y \in (1..(height' - 5)) \ changed : screen'[y] = screen[y]]_vars

\* a delta repaint was given up for a full repaint of a list of two ports
C25_Witness ==
  /\ lastPath = "fallback"
  /\ Len(previousRenderState[1].filteredPorts) >= 2
  /\ screen[2].kind = "port"
  /\ screen[height - 3].kind = "details"


\* the indices at which the two snapshots of this step hold ports that
\* differ in a compared field
DataChangedAt ==
  LET prev == previousRenderState[1].filteredPorts
      cur == previousRenderState'[1].filteredPorts
  IN {j \in 0..(Min(Len(prev), Len(cur)) - 1) :
        PortDataChanged(prev[j + 1], cur[j + 1])}

\* C26: a completed delta repaint between snapshots of equal length, filter,
\* sort and details flag, with the selection unchanged and exactly one row
\* changed in its data, rewrites that row, the header line and the footer
\* line; no other port row is written.
C26_DeltaWritesOnlyChangedRow ==
  [][/\ RenderStep
     /\ lastPath' = "delta"
     /\ previousRenderState[1].selectedIndex = previousRenderState'[1].selectedIndex
     /\ Cardinality(DataChangedAt) = 1
     =>
     LET j == CHOOSE i \in DataChangedAt : TRUE
         list == previousRenderState'[1].filteredPorts
         budget == height' - (IF state'.showDetails THEN 6 ELSE 4)
     IN /\ \A y \in 2..(budget - 1) :
             IF y = j + 2
             THEN screen'[y] = PortLine(list[j + 1], j, state',
                                         state'.selectedIndex, width')
             ELSE screen'[y] = screen[y]
        /\ deltaRows' \cap (2..(budget - 1)) = {j + 2} \cap (2..(budget - 1))
        /\ screen'[0] = HeaderLine(state', list)
        /\ screen'[height' - 1] =
             (IF state'.searching THEN SearchPrompt(searchBuffer')
              ELSE [kind |-> "hints"])]_vars

\* a delta repaint has rewritten the first of two listed rows and no other
C26_Witness ==
  /\ lastPath = "delta"
  /\ deltaRows = {2}
  /\ Len(previousRenderState[1].filteredPorts) = 2
  /\ screen[2].kind = "port"
  /\ screen[3].kind = "port"


\* every character of the buffer is a decimal digit
DigitsOnly(buffer) ==
  \A i \in 1..Len(buffer) :
    buffer[i] \in {"0", "1", "2", "3", "4", "5", "6", "7", "8", "9"}

\* the hook took the key: the buffer is the given one, filter equals it, one
\* render followed, and that render did not work on the cache of before
HookTookKey(before, after, buffer) ==
  /\ after.buf = buffer
  /\ after.st = [before.st EXCEPT !.filter = buffer]
  /\ after.tick = 1
  /\ after.cache # Null
  /\ after.cache[1].filter = buffer
  /\ after.cache[1].result = Flatten(before.st.groups, buffer)
  /\ after.prev # Null
  /\ after.prev[1].filteredPorts = Flatten(before.st.groups, buffer)
  /\ after.scr[ScreenHeight - 1] = SearchPrompt(buffer)

\* C27: while searching is true the catch-all key hook appends a digit key to
\* the search buffer and removes the last character on backspace, sets filter
\* to the buffer, drops the filtered-ports cache and renders once; any other
\* key, and any key while searching is false, changes nothing and renders
\* nothing; the buffer holds digits only.
C27_SearchHookOnlyWhileSearching ==
  call.fn = "searchHook" =>
    LET before == call.before
        after == call.after
    IN /\ IF before.st.searching /\ call.key \in {"0", "3", "8"}
          THEN HookTookKey(before, after, before.buf \o <<call.key>>)
          ELSE IF before.st.searching /\ call.key = "backspace"
          THEN HookTookKey(before, after,
                           IF before.buf = <<>> THEN <<>>
                           ELSE [i \in 1..(Len(before.buf) - 1) |-> before.buf[i]])
          ELSE after = before
       /\ DigitsOnly(after.buf)

\* backspace on an empty buffer in search mode: the filter stays empty, and the
\* render that follows does not take the list of the cache the hook dropped
C27_Witness ==
  /\ call.fn = "searchHook"
  /\ call.key = "backspace"
  /\ call.before.st.searching
  /\ call.before.buf = <<>>
  /\ call.before.cache # Null
  /\ call.before.cache[1].result = <<>>
  /\ Len(call.after.cache[1].result) = 3
  /\ call.after.tick = 1


\* C28: while the dashboard is running and every refresh settles, a toast
\* that has been set is eventually cleared from the state by the renders of
\* the timer, with no key press needed.
C28_ToastEventuallyCleared ==
  (state.killMessage # Null) ~> (state.killMessage = Null \/ phase = "stopped")

\* a render of the timer callback has cleared an expired toast
C28_Witness ==
  /\ state.killMessage = Null
  /\ state.killMessageExpiresAt = Null
  /\ now > ToastTicks
  /\ phase = "running"
  /\ lastPath = "full"
  /\ renderTick = 1
  /\ Len(outstanding) = 0


\* the ports of every group are in the order of the comparator `path` on sortBy
GroupsOrderedBy(groups, path, sortBy) ==
  \A i \in 1..Len(groups) :
    \A j, k \in 1..Len(groups[i].ports) :
      j < k => Compare(path, sortBy, groups[i].ports[j], groups[i].ports[k]) <= 0

\* The groups are in the order of state.sortBy and not in the order of the
\* command-line sort: every refresh under a command-line sort leaves them in
\* its order, so the user has chosen an interactive sort key since.
InteractiveSortChosen ==
  /\ filterOptions # Null
  /\ GroupsOrderedBy(state.groups, "interactive", state.sortBy)
  /\ ~GroupsOrderedBy(state.groups, "cli", filterOptions[1])

\* C29: once the user has selected an interactive sort key, a refresh leaves
\* every group's ports in the order of state.sortBy, the key the header shows,
\* although a sort option was given on the command line.
C29_CliSortIsOneShot ==
  [][(refreshed' /\ InteractiveSortChosen)
       => GroupsOrderedBy(state'.groups, "interactive", state'.sortBy)]_vars


\* a refresh() settles in this step that was started before one whose result
\* has been installed since
OvertakenSettles == Len(outstanding') < Len(outstanding) /\ overtaken' < overtaken

\* C30: a refresh() that was still outstanding when a refresh() started after it
\* installed its result leaves ports and groups alone when it settles, so
\* the state keeps the result of the refresh started last.
C30_LaterRefreshWins ==
  [][OvertakenSettles
       => (state'.ports = state.ports /\ state'.groups = state.groups)]_vars


\* every group collapsed before the step is there and collapsed after it
CollapsedStayCollapsed ==
  \A i \in 1..Len(state.groups) :
    state.groups[i].collapsed
      => (i <= Len(state'.groups) /\ state'.groups[i].id = state.groups[i].id
          /\ state'.groups[i].collapsed)

SelectionDrawn(scr, st, h) ==
  /\ st.selectedIndex + 2 < MaxHeightOf(st, h)
  /\ scr[st.selectedIndex + 2].kind = "port"
  /\ scr[st.selectedIndex + 2].selector

\* C32: after every render of the main view with a selectedIndex inside a
\* non-empty flattened list, the row selectedIndex + 2 is below the row budget
\* and shows the selected port line.
C32_SelectionAlwaysDrawn ==
  [][(/\ RenderStep
      /\ ~AnyModal(state')
      /\ Len(CurrentList') > 0
      /\ ValidIndex(state'.selectedIndex, Len(CurrentList')))
       => SelectionDrawn(screen', state', height')]_vars


\* C33: the wrap loop of the command view writes on rows 2 .. height - 3 only,
\* whatever the command: no line or chunk lands on row height - 2 or below.
C33_WrapStaysAboveFooter ==
  call.fn = "renderCommand" =>
    \A n \in 1..Len(call.result) :
      2 <= call.result[n].y /\ call.result[n].y <= call.height - 3

====
